---- MODULE Spec2Model ----
(***************************************************************************)
(* Davis console protocol client (sievlla-stationlogger): the wake-up      *)
(* handshake, GETTIME / SETTIME / DMPAFT exchanges, the archive page       *)
(* decoder and the three command-line tools that drive them.               *)
(***************************************************************************)
EXTENDS Integers, Sequences, FiniteSets, TLC

(* ------------------------------------------------------------------ *)
(* Bounds of the model                                                 *)
(* ------------------------------------------------------------------ *)
\* largest retries_attempt a direct client of DavisCommunicator passes
MaxRetries == 2
\* largest num_pages the console announces in a DMPAFT header
MaxPages == 2

(* ------------------------------------------------------------------ *)
(* Program constants                                                   *)
(* ------------------------------------------------------------------ *)
CR == 13
LF == 10
ACK == 6
NAK == 33
CANCEL == 24
RETRIES == 3
NULL_DATE_TIME == <<1, 1, 1, 0, 0, 0>>
NULL_DATE == <<1, 1, 1>>

CRC_TABLE == <<
    0, 4129, 8258, 12387, 16516, 20645, 24774, 28903,
    33032, 37161, 41290, 45419, 49548, 53677, 57806, 61935,
    4657, 528, 12915, 8786, 21173, 17044, 29431, 25302,
    37689, 33560, 45947, 41818, 54205, 50076, 62463, 58334,
    9314, 13379, 1056, 5121, 25830, 29895, 17572, 21637,
    42346, 46411, 34088, 38153, 58862, 62927, 50604, 54669,
    13907, 9842, 5649, 1584, 30423, 26358, 22165, 18100,
    46939, 42874, 38681, 34616, 63455, 59390, 55197, 51132,
    18628, 22757, 26758, 30887, 2112, 6241, 10242, 14371,
    51660, 55789, 59790, 63919, 35144, 39273, 43274, 47403,
    23285, 19156, 31415, 27286, 6769, 2640, 14899, 10770,
    56317, 52188, 64447, 60318, 39801, 35672, 47931, 43802,
    27814, 31879, 19684, 23749, 11298, 15363, 3168, 7233,
    60846, 64911, 52716, 56781, 44330, 48395, 36200, 40265,
    32407, 28342, 24277, 20212, 15891, 11826, 7761, 3696,
    65439, 61374, 57309, 53244, 48923, 44858, 40793, 36728,
    37256, 33193, 45514, 41451, 53516, 49453, 61774, 57711,
    4224, 161, 12482, 8419, 20484, 16421, 28742, 24679,
    33721, 37784, 41979, 46042, 49981, 54044, 58239, 62302,
    689, 4752, 8947, 13010, 16949, 21012, 25207, 29270,
    46570, 42443, 38312, 34185, 62830, 58703, 54572, 50445,
    13538, 9411, 5280, 1153, 29798, 25671, 21540, 17413,
    42971, 47098, 34713, 38840, 59231, 63358, 50973, 55100,
    9939, 14066, 1681, 5808, 26199, 30326, 17941, 22068,
    55628, 51565, 63758, 59695, 39368, 35305, 47498, 43435,
    22596, 18533, 30726, 26663, 6336, 2273, 14466, 10403,
    52093, 56156, 60223, 64286, 35833, 39896, 43963, 48026,
    19061, 23124, 27191, 31254, 2801, 6864, 10931, 14994,
    64814, 60687, 56684, 52557, 48554, 44427, 40424, 36297,
    31782, 27655, 23652, 19525, 15522, 11395, 7392, 3265,
    61215, 65342, 53085, 57212, 44955, 49082, 36825, 40952,
    28183, 32310, 20053, 24180, 11923, 16050, 3793, 7920 >>

(* ------------------------------------------------------------------ *)
(* Integer and byte helpers (Python int operators, struct)             *)
(* ------------------------------------------------------------------ *)
RECURSIVE BitXor(_, _)
BitXor(a, b) ==
    IF a = 0 THEN b
    ELSE IF b = 0 THEN a
    ELSE ((a + b) % 2) + 2 * BitXor(a \div 2, b \div 2)

RECURSIVE BitAnd(_, _)
BitAnd(a, b) ==
    IF a = 0 \/ b = 0 THEN 0
    ELSE ((a % 2) * (b % 2)) + 2 * BitAnd(a \div 2, b \div 2)

\* struct.pack('>H', v)
PackBE16(v) == << v \div 256, v % 256 >>
\* struct.pack('<H', v)
PackLE16(v) == << v % 256, v \div 256 >>
\* struct.unpack_from('>H', b)[0], for a buffer of at least two bytes
UnpackBE16(b) == b[1] * 256 + b[2]
\* struct.unpack('<H', b)[0]
UnpackLE16(b) == b[1] + b[2] * 256
\* struct.unpack('1b', b)[0]: one signed byte
UnpackInt8(b) == IF b[1] >= 128 THEN b[1] - 256 ELSE b[1]

\* Python's ==, which is False for operands of different types (bytes, str)
PyEq(x, y) == x.type = y.type /\ x.val = y.val
Bytes(s) == [type |-> "bytes", val |-> s]
Str(s) == [type |-> "str", val |-> s]

\* variant: the low byte of accu is not shifted up
CrcStep_noshift(accu, b) ==
    BitXor(CRC_TABLE[BitXor(accu \div 256, b) + 1], accu % 256)

\* one round of the loop of _calculate_crc
CrcStep(accu, b) ==
    BitXor(CRC_TABLE[BitXor(accu \div 256, b) + 1], (accu % 256) * 256)

\* the loop over block[lo..hi], left to right, split in halves; the test
\* on left has the left half evaluated before the right half starts
RECURSIVE CrcFrom(_, _, _, _)
CrcFrom(accu, block, lo, hi) ==
    IF lo > hi THEN accu
    ELSE IF lo = hi THEN CrcStep(accu, block[lo])
    ELSE LET mid == (lo + hi) \div 2
             left == CrcFrom(accu, block, lo, mid)
         IN  IF left >= 0 THEN CrcFrom(left, block, mid + 1, hi) ELSE left

\* variant: accu starts at 0xFFFF
calculate_crc_ffff(block) == CrcFrom(65535, block, 1, Len(block))

\* DavisCommunicator._calculate_crc
calculate_crc(block) == CrcFrom(0, block, 1, Len(block))

(* ------------------------------------------------------------------ *)
(* datetime.date / datetime.time / datetime.datetime                   *)
(* ------------------------------------------------------------------ *)
IsLeap(y) == (y % 4 = 0 /\ y % 100 # 0) \/ y % 400 = 0

DaysInMonth(y, m) ==
    IF m = 2 THEN (IF IsLeap(y) THEN 29 ELSE 28)
    ELSE IF m \in {4, 6, 9, 11} THEN 30 ELSE 31

\* date(y, m, d) succeeds; otherwise the constructor raises ValueError
DateOk(y, m, d) ==
    /\ y >= 1 /\ y <= 9999
    /\ m >= 1 /\ m <= 12
    /\ d >= 1 /\ d <= DaysInMonth(y, m)

\* time(h, m) succeeds; otherwise the constructor raises ValueError
TimeOk(h, m, s) == h >= 0 /\ h <= 23 /\ m >= 0 /\ m <= 59 /\ s >= 0 /\ s <= 59

\* order of datetime values <<year, month, day, hour, minute, second>>
DtLess(a, b) ==
    \E k \in 1..6 : a[k] < b[k] /\ \A j \in 1..(k - 1) : a[j] = b[j]

DtLeq(a, b) == a = b \/ DtLess(a, b)

(* ------------------------------------------------------------------ *)
(* Packed date / packed time codec                                     *)
(* ------------------------------------------------------------------ *)
\* the range test of _decode_date as Python evaluates it: & binds tighter
\* than the comparisons, so  y < 0 & y > 99  is the chain  y < (0 & y) > 99
DateRangeError(y, m, d) ==
    \/ (y < BitAnd(0, y) /\ BitAnd(0, y) > 99)
    \/ (m < BitAnd(1, m) /\ BitAnd(1, m) > 12)
    \/ (d < BitAnd(1, d) /\ BitAnd(1, d) > 31)

\* the range test of _decode_time, evaluated the same way
TimeRangeError(h, m) ==
    \/ (h < BitAnd(0, h) /\ BitAnd(0, h) > 23)
    \/ (m < BitAnd(0, m) /\ BitAnd(0, m) > 59)

\* DavisCommunicator._decode_date: a date, None, or ValueError from date()
decode_date(i) ==
    LET y == BitAnd(i, 65024) \div 512
        m == BitAnd(i, 480) \div 32
        d == BitAnd(i, 31)
    IN  IF DateRangeError(y, m, d) THEN [kind |-> "None", val |-> <<>>]
        ELSE IF ~DateOk(y + 2000, m, d) THEN [kind |-> "ValueError", val |-> <<>>]
        ELSE [kind |-> "ok", val |-> <<y + 2000, m, d>>]

\* DavisCommunicator._decode_time: a time, None, or ValueError from time()
decode_time(i) ==
    LET h == i \div 100
        m == i - (h * 100)
    IN  IF TimeRangeError(h, m) THEN [kind |-> "None", val |-> <<>>]
        ELSE IF ~TimeOk(h, m, 0) THEN [kind |-> "ValueError", val |-> <<>>]
        ELSE [kind |-> "ok", val |-> <<h, m, 0>>]

\* variant: the month shifted by four bits only
encode_date_m16(dt) ==
    IF dt = NULL_DATE THEN 0 ELSE dt[3] + dt[2] * 16 + (dt[1] - 2000) * 512

\* DavisCommunicator._encode_date, of a date <<year, month, day>>
encode_date(dt) ==
    IF dt = NULL_DATE THEN 0 ELSE dt[3] + dt[2] * 32 + (dt[1] - 2000) * 512

\* variant: minutes of the day
encode_time_60(tm) == tm[1] * 60 + tm[2]

\* DavisCommunicator._encode_time, of a time <<hour, minute, second>>
encode_time(tm) == tm[1] * 100 + tm[2]

\* DavisCommunicator._date_time_to_array: struct.pack('<2H', ..) raises
\* struct.error for a word outside 0..65535
date_time_to_array(dt) ==
    LET ed == encode_date(<<dt[1], dt[2], dt[3]>>)
        et == encode_time(<<dt[4], dt[5], dt[6]>>)
    IN  IF ed < 0 \/ ed > 65535 \/ et < 0 \/ et > 65535
        THEN [kind |-> "struct.error", val |-> <<>>]
        ELSE [kind |-> "ok", val |-> PackLE16(ed) \o PackLE16(et)]

\* DavisCommunicator._is_valid_record on a 52-byte slot:
\* "True", "False", or "ValueError" raised by the decoders
is_valid_record(s) ==
    LET el0 == UnpackLE16(SubSeq(s, 1, 2))
        el1 == UnpackLE16(SubSeq(s, 3, 4))
    IN  IF el0 = 65535 \/ el1 = 65535 THEN "False"
        ELSE IF decode_date(el0).kind = "ValueError" THEN "ValueError"
        ELSE IF decode_date(el0).kind = "None" THEN "False"
        ELSE IF decode_time(el1).kind = "ValueError" THEN "ValueError"
        ELSE IF decode_time(el1).kind = "None" THEN "False"
        ELSE "True"

\* MeteoRecord.datetime() of the record _create_archive_data_from_bytes
\* builds from a slot that passed _is_valid_record
record_datetime(s) ==
    LET dt == decode_date(UnpackLE16(SubSeq(s, 1, 2))).val
        tm == decode_time(UnpackLE16(SubSeq(s, 3, 4))).val
    IN  <<dt[1], dt[2], dt[3], tm[1], tm[2], tm[3]>>

(* ------------------------------------------------------------------ *)
(* Frames and the replies the console may give                         *)
(* ------------------------------------------------------------------ *)
B_TEST == <<84, 69, 83, 84, 10>>
B_TEST_REPLY == <<10, 13, 84, 69, 83, 84, 10, 13>>
B_GETTIME == <<71, 69, 84, 84, 73, 77, 69>>
B_SETTIME == <<83, 69, 84, 84, 73, 77, 69>>
B_DMPAFT == <<68, 77, 80, 65, 70, 84>>

\* a write of d, and a read of at most n bytes that returned d
W(d) == [k |-> "w", n |-> Len(d), d |-> d]
R(n, d) == [k |-> "r", n |-> n, d |-> d]

\* replies to the wake-up LF: the handshake, garbage, a short and an empty read
WakeReplies == { <<LF, CR>>, <<CR, LF>>, <<LF>>, <<>> }
\* replies to TEST: the echo, or nothing before the timeout
TestReplies == { B_TEST_REPLY, <<>> }
\* the byte read by wait_for_ack, or nothing before the timeout
AckReplies == { <<ACK>>, <<NAK>>, <<CANCEL>>, <<>> }
\* GETTIME payloads: 2024-06-12 14:45:30, 31 February, month 13, a short read
TimePayloads == { <<30, 45, 14, 12, 6, 124>>, <<0, 0, 0, 31, 2, 124>>,
                  <<0, 0, 0, 1, 13, 124>>, <<30, 45>> }
\* the CRC bytes that follow a payload p: right, wrong, missing
CrcReplies(p) == { PackBE16(calculate_crc(p)),
                   PackBE16((calculate_crc(p) + 1) % 65536), <<>> }
\* times handed to set_time: in range, and years 1900 + 256 and 1899
NewTimes == { <<2024, 6, 12, 14, 50, 0>>, <<2156, 1, 1, 0, 0, 0>>,
              <<1899, 12, 31, 23, 59, 59>> }
\* the clock read by the check-time tool when it pushes the time
NowTimes == { <<2024, 6, 12, 14, 50, 0>> }
\* station time minus current time, in seconds: none, 5 minutes, just
\* below and exactly 5.5 minutes, fast and slow
DriftSeconds == { 0, 300, 329, 330, -300, -330 }
\* timestamps of the rows already in the CSV data file
T_A == <<2024, 6, 12, 14, 45, 0>>
T_B == <<2024, 6, 12, 15, 0, 0>>
StoredFiles == { [exists |-> FALSE, rows |-> <<>>],
                 [exists |-> TRUE, rows |-> <<T_A>>] }

Callers == { "checktime", "settime", "stationlogger", "client" }

(* ------------------------------------------------------------------ *)
(* State                                                               *)
(* ------------------------------------------------------------------ *)
VARIABLES
    caller,           \* the program that drives the communicator
    cfg,              \* check-time options: check, settime, timedelta
    retries_attempt,  \* DavisCommunicator._retries_attempt
    stored,           \* StationLogger._stored_data / the CSV data file
    new_time,         \* the time handed to set_time
    session,          \* the _process_* / _read_archiveRecords call in progress
    pc,               \* position inside the session
    port,             \* Communicator._port: "none", "open", "closed"
    op,               \* the protocol operation whose I/O opWire records
    opWire,           \* writes and reads of that operation, in order
    frames,           \* command frames written, with the last wake_up result
    attempt,          \* loop index i of wake_up
    wakeResult,       \* what wake_up returned: "none", "True", "False"
    testResult,       \* what test_comm returned
    station_time,     \* what get_time returned
    error,            \* the exception that ended the run, or "none"
    last_stored_date, \* argument of get_archive_data
    num_pages,        \* DMPAFT header field
    valid_record,     \* DMPAFT header field
    page_i,           \* loop index i of get_archive_data
    records,          \* the list get_archive_data accumulates
    returned,         \* what get_archive_data returned
    slotLog,          \* the slots the page loop passed over or examined
    codec,            \* a direct call of one codec function: argument, result
    collector_type,   \* Configuration.collector_type of the station logger
    console,          \* what the console replies to a whole station-logger run
    runs,             \* whole runs made since the console's replies changed
    time_diff         \* CheckTime.run: the drift in seconds and time_diff

vars == << caller, cfg, retries_attempt, stored, new_time, session, pc, port,
           op, opWire, frames, attempt, wakeResult, testResult, station_time,
           error, last_stored_date, num_pages, valid_record, page_i, records,
           returned, slotLog, codec, collector_type, console, runs,
           time_diff >>

\* no codec function is being called
CodecIdle == [fn |-> "none", arg |-> <<>>, from |-> <<>>, out |-> <<>>,
              done |-> FALSE]

\* no whole run is being made
NoConsole == [a1 |-> <<>>, a2 |-> <<>>, rcv |-> <<>>, crcv |-> <<>>,
              pages |-> <<>>]

toolVars == << caller, cfg, retries_attempt, codec, collector_type, console,
              runs, time_diff >>
dmpVars == << last_stored_date, num_pages, valid_record, page_i, records, returned,
             slotLog >>

NoTime == [kind |-> "unset", val |-> <<>>]
NoRecords == [kind |-> "unset", val |-> <<>>]

SessionOf(c) ==
    CASE c = "checktime" -> "check"
      [] c = "settime" -> "set"
      [] c = "stationlogger" -> "archive"
      [] OTHER -> "wake"

\* CollectorType values of the configuration file: the three the station
\* logger accepts and one it rejects
CollectorTypes == { "RAIN_001IN", "RAIN_01MM", "RAIN_02MM", "RAIN_05MM" }
\* the two of them the runs of all the tools start from: the default type
\* and the rejected one
ToolCollectorTypes == { "RAIN_02MM", "RAIN_05MM" }

Init ==
    /\ caller \in Callers
    /\ collector_type \in IF caller = "stationlogger" THEN ToolCollectorTypes
                          ELSE {"RAIN_02MM"}
    /\ cfg \in IF caller = "checktime"
               THEN [check : BOOLEAN, settime : BOOLEAN, timedelta : {5}]
               ELSE {[check |-> FALSE, settime |-> FALSE, timedelta |-> 5]}
    /\ retries_attempt \in IF caller = "client" THEN 0..MaxRetries ELSE {RETRIES}
    /\ stored \in IF caller = "stationlogger" THEN StoredFiles
                  ELSE {[exists |-> FALSE, rows |-> <<>>]}
    /\ new_time \in IF caller = "settime" THEN NewTimes ELSE {<<>>}
    /\ session = SessionOf(caller)
    /\ pc = IF caller = "stationlogger" THEN "read_config" ELSE "open_port"
    /\ port = "none"
    /\ op = "none"
    /\ opWire = <<>>
    /\ frames = <<>>
    /\ attempt = 0
    /\ wakeResult = "none"
    /\ testResult = FALSE
    /\ station_time = NoTime
    /\ error = "none"
    /\ last_stored_date = NULL_DATE_TIME
    /\ num_pages = 0
    /\ valid_record = 0
    /\ page_i = 0
    /\ records = <<>>
    /\ returned = NoRecords
    /\ slotLog = <<>>
    /\ codec = CodecIdle
    /\ console = NoConsole
    /\ runs = 0
    /\ time_diff = <<>>

(* ------------------------------------------------------------------ *)
(* Communicator.open_port / close_port                                 *)
(* ------------------------------------------------------------------ *)
\* StationLogger._find_last_stored_measurement
find_last_stored_measurement(sd) ==
    IF ~sd.exists THEN NULL_DATE_TIME ELSE sd.rows[Len(sd.rows)]

\* StationLogger.run up to _read_archiveRecords: Configuration.read raises
\* WrongRainCollector for a CollectorType outside the three names
ReadConfiguration ==
    /\ pc = "read_config"
    /\ IF collector_type \in {"RAIN_001IN", "RAIN_01MM", "RAIN_02MM"}
       THEN pc' = "open_port" /\ error' = error
       ELSE pc' = "raised" /\ error' = "WrongRainCollector"
    /\ UNCHANGED << toolVars, stored, new_time, session, port, op, opWire,
                    frames, attempt, wakeResult, testResult, station_time,
                    dmpVars >>

\* open_port followed by the construction of the DavisCommunicator
OpenPort ==
    /\ pc = "open_port"
    /\ port' = "open"
    /\ pc' = "wake_up"
    /\ op' = "wake_up"
    /\ opWire' = <<>>
    /\ attempt' = 0
    /\ wakeResult' = "none"
    /\ last_stored_date' = IF session = "archive"
                           THEN find_last_stored_measurement(stored)
                           ELSE last_stored_date
    /\ UNCHANGED << toolVars, stored, new_time, session, frames, testResult,
                    station_time, error, num_pages, valid_record, page_i,
                    records, returned, slotLog >>

ClosePort ==
    /\ pc = "close_port"
    /\ port' = "closed"
    /\ pc' = "returned"
    /\ UNCHANGED << toolVars, stored, new_time, session, op, opWire, frames,
                    attempt, wakeResult, testResult, station_time, error,
                    dmpVars >>

(* ------------------------------------------------------------------ *)
(* DavisCommunicator.wake_up                                           *)
(* ------------------------------------------------------------------ *)
\* variant: only the first byte of the reply is compared
wake_reply_ok_prefix(rcv) == Len(rcv) >= 1 /\ rcv[1] = LF

\* the test  b'\n\r' == rcv
wake_reply_ok(rcv) == PyEq(Bytes(<<LF, CR>>), Bytes(rcv))

\* variant: the loop bound taken inclusively, one attempt too many
wake_more_inclusive(i, n) == i <= n

\* the loop runs while i is in range(retries_attempt)
wake_more(i, n) == i < n

AfterWake == IF session = "wake" THEN "close_port" ELSE "test_comm"

\* one iteration of the loop: write LF, read 2, return True on LF CR
WakeUpAttempt ==
    /\ pc = "wake_up"
    /\ wake_more(attempt, retries_attempt)
    /\ \E rcv \in WakeReplies :
        /\ opWire' = opWire \o << W(<<LF>>), R(2, rcv) >>
        /\ IF wake_reply_ok(rcv)
           THEN /\ wakeResult' = "True"
                /\ pc' = AfterWake
                /\ attempt' = attempt
           ELSE /\ attempt' = attempt + 1
                /\ UNCHANGED << wakeResult, pc >>
    /\ UNCHANGED << toolVars, stored, new_time, session, port, op, frames,
                    testResult, station_time, error, dmpVars >>

\* the loop is over without a reply of LF CR: return False
WakeUpExhausted ==
    /\ pc = "wake_up"
    /\ ~wake_more(attempt, retries_attempt)
    /\ wakeResult' = "False"
    /\ pc' = AfterWake
    /\ UNCHANGED << toolVars, stored, new_time, session, port, op, opWire,
                    frames, attempt, testResult, station_time, error, dmpVars >>

(* ------------------------------------------------------------------ *)
(* DavisCommunicator.test_comm                                         *)
(* ------------------------------------------------------------------ *)
\* the callers go on whatever wake_up and test_comm returned
AfterTest ==
    CASE session = "check" -> "get_time"
      [] session = "set" -> "set_time"
      [] OTHER -> "get_archive_data"

\* the comparison  rcv == '\n\rTEST\n\r'  of bytes with a str literal
test_comm_result(rcv) == PyEq(Bytes(rcv), Str(B_TEST_REPLY))

TestComm ==
    /\ pc = "test_comm"
    /\ \E rcv \in TestReplies :
        /\ opWire' = << W(B_TEST), R(8, rcv) >>
        /\ testResult' = test_comm_result(rcv)
    /\ op' = "test_comm"
    /\ frames' = Append(frames, [cmd |-> "TEST", woken |-> wakeResult])
    /\ pc' = AfterTest
    /\ UNCHANGED << toolVars, stored, new_time, session, port, attempt,
                    wakeResult, station_time, error, dmpVars >>

(* ------------------------------------------------------------------ *)
(* Communicator.wait_for_ack                                           *)
(* ------------------------------------------------------------------ *)
\* struct.unpack('1b', rcv) raises struct.error when the read timed out;
\* otherwise the result tells whether the byte is ACK
wait_for_ack(rcv) ==
    IF Len(rcv) < 1 THEN "struct.error"
    ELSE IF ACK = UnpackInt8(rcv) THEN "True" ELSE "False"

\* what the protocol operations do with the result of wait_for_ack:
\* TRUE when the operation goes on to its next statement
ack_passed(r) == r \in {"True", "False"}

(* ------------------------------------------------------------------ *)
(* DavisCommunicator.get_time                                          *)
(* ------------------------------------------------------------------ *)
\* variant: the payload is decoded without comparing the CRCs
get_time_decode_nocrc(rcv, crcv) ==
    IF Len(crcv) < 2 \/ Len(rcv) < 6 THEN [kind |-> "struct.error", val |-> <<>>]
    ELSE IF ~(DateOk(1900 + rcv[6], rcv[5], rcv[4]) /\ TimeOk(rcv[3], rcv[2], rcv[1]))
         THEN [kind |-> "ValueError", val |-> <<>>]
    ELSE [kind |-> "datetime",
          val |-> <<1900 + rcv[6], rcv[5], rcv[4], rcv[3], rcv[2], rcv[1]>>]

\* the decision of get_time on the payload rcv and the CRC bytes crcv
get_time_decode(rcv, crcv) ==
    IF Len(crcv) < 2 THEN [kind |-> "struct.error", val |-> <<>>]
    ELSE IF UnpackBE16(crcv) # calculate_crc(rcv) THEN [kind |-> "None", val |-> <<>>]
    ELSE IF Len(rcv) < 6 THEN [kind |-> "struct.error", val |-> <<>>]
    ELSE IF ~(DateOk(1900 + rcv[6], rcv[5], rcv[4]) /\ TimeOk(rcv[3], rcv[2], rcv[1]))
         THEN [kind |-> "ValueError", val |-> <<>>]
    ELSE [kind |-> "datetime",
          val |-> <<1900 + rcv[6], rcv[5], rcv[4], rcv[3], rcv[2], rcv[1]>>]

\* the whole call, for the replies a (ACK byte), rcv (payload), crcv (CRC)
get_time(a, rcv, crcv) ==
    LET head == << W(B_GETTIME), W(<<LF>>), R(1, a) >>
    IN  IF ~ack_passed(wait_for_ack(a))
        THEN [wire |-> head, kind |-> wait_for_ack(a), val |-> <<>>]
        ELSE [wire |-> head \o << R(6, rcv), R(2, crcv) >>,
              kind |-> get_time_decode(rcv, crcv).kind,
              val |-> get_time_decode(rcv, crcv).val]

IsError(kind) == kind \in {"struct.error", "ValueError", "AttributeError"}

GetTime ==
    /\ pc = "get_time"
    /\ \E a \in AckReplies, rcv \in TimePayloads :
       \E crcv \in CrcReplies(rcv) :
        LET out == get_time(a, rcv, crcv)
        IN  /\ opWire' = out.wire
            /\ IF IsError(out.kind)
               THEN /\ pc' = "raised"
                    /\ error' = out.kind
                    /\ station_time' = NoTime
               ELSE /\ pc' = "close_port"
                    /\ error' = error
                    /\ station_time' = [kind |-> out.kind, val |-> out.val]
    /\ op' = "get_time"
    /\ frames' = Append(frames, [cmd |-> "GETTIME", woken |-> wakeResult])
    /\ UNCHANGED << toolVars, stored, new_time, session, port, attempt,
                    wakeResult, testResult, dmpVars >>

(* ------------------------------------------------------------------ *)
(* DavisCommunicator.set_time                                          *)
(* ------------------------------------------------------------------ *)
\* variant: the year counted from 2000
set_time_pack_2000(dt) ==
    LET ds == << dt[6], dt[5], dt[4], dt[3], dt[2], (dt[1] - 2000) % 256 >>
    IN  [kind |-> "ok", val |-> ds]

\* struct.pack("6B", ...) of the six fields; struct.error outside 0..255
set_time_pack(dt) ==
    LET ds == << dt[6], dt[5], dt[4], dt[3], dt[2], dt[1] - 1900 >>
    IN  IF \E k \in 1..6 : ds[k] < 0 \/ ds[k] > 255
        THEN [kind |-> "struct.error", val |-> <<>>]
        ELSE [kind |-> "ok", val |-> ds]

\* the whole call, for the replies a1 and a2 to the two wait_for_ack
set_time(dt, a1, a2) ==
    LET head == << W(B_SETTIME), W(<<LF>>), R(1, a1) >>
        buf == set_time_pack(dt)
        body == head \o << W(buf.val), W(PackBE16(calculate_crc(buf.val))),
                           R(1, a2) >>
    IN  IF ~ack_passed(wait_for_ack(a1))
        THEN [wire |-> head, kind |-> wait_for_ack(a1)]
        ELSE IF buf.kind # "ok" THEN [wire |-> head, kind |-> buf.kind]
        ELSE IF ~ack_passed(wait_for_ack(a2))
        THEN [wire |-> body, kind |-> wait_for_ack(a2)]
        ELSE [wire |-> body, kind |-> "None"]

SetTime ==
    /\ pc = "set_time"
    /\ \E a1 \in AckReplies, a2 \in AckReplies :
        LET out == set_time(new_time, a1, a2)
        IN  /\ opWire' = out.wire
            /\ IF IsError(out.kind)
               THEN /\ pc' = "raised"
                    /\ error' = out.kind
               ELSE /\ pc' = "get_time"
                    /\ error' = error
    /\ op' = "set_time"
    /\ frames' = Append(frames, [cmd |-> "SETTIME", woken |-> wakeResult])
    /\ UNCHANGED << toolVars, stored, new_time, session, port, attempt,
                    wakeResult, testResult, station_time, dmpVars >>

(* ------------------------------------------------------------------ *)
(* Measurement units and conversions                                   *)
(* ------------------------------------------------------------------ *)
\* the members of the unit enumerations
RainCollector == { "RAIN_001IN", "RAIN_01MM", "RAIN_02MM" }
RainMeasurementsUnit == { "MM", "IN" }
TemperatureMeasurementsUnit == { "F", "C" }
WindSpeedMeasurementsUnit == { "M_S", "K" }
WindDirMeasurementsUnit == { "DEG", "NAMES" }
AirPressureMeasurementsUnit == { "IN_HG", "HPA" }

\* the keyword defaults of DavisCommunicator.__init__
DefaultUnits ==
    [rain_collector |-> "RAIN_02MM", rain_unit |-> "MM", temp_unit |-> "C",
     wind_speed_unit |-> "M_S", pressure_unit |-> "HPA",
     wind_dir_unit |-> "NAMES", altitude |-> 0]

WIND_DIRECTIONS ==
    << "N", "NNE", "NE", "ENE", "E", "ESE", "SE", "SSE", "S", "SSW", "SW",
       "WSW", "W", "WNW", "NW", "NNW" >>

\* _WIND_DIRECTIONS_DEG_MAP, in tenths of a degree
WIND_DIRECTIONS_DEG_MAP ==
    [N |-> 0, NNE |-> 225, NE |-> 450, ENE |-> 675, E |-> 900, ESE |-> 1125,
     SE |-> 1350, SSE |-> 1575, S |-> 1800, SSW |-> 2025, SW |-> 2250,
     WSW |-> 2475, W |-> 2700, WNW |-> 2925, NW |-> 3150, NNW |-> 3375]

\* the unit settings of the DavisCommunicator each tool constructs:
\* the station logger passes wind_dir_measurements_unit and altitude only
communicator_units(c) ==
    IF c = "stationlogger" THEN [DefaultUnits EXCEPT !.wind_dir_unit = "DEG"]
    ELSE DefaultUnits

\* a measurement: None, or a value
Null == [null |-> TRUE, v |-> <<>>]
Some(v) == [null |-> FALSE, v |-> v]

\* the float (raw + off) * num / den, kept exact
Q(raw, off, num, den) == [raw |-> raw, off |-> off, num |-> num, den |-> den]

\* DavisCommunicator._convert_temp: tenths of a degree F, or 5/9 * (F - 32)
convert_temp(u, v) ==
    IF u.temp_unit = "F" THEN Q(v, 0, 1, 10) ELSE Q(v, -320, 5, 90)

\* DavisCommunicator._convert_wind_speed
convert_wind_speed(u, v) ==
    IF u.wind_speed_unit = "K" THEN Q(v, 0, 1, 1) ELSE Q(v, 0, 44704, 100000)

\* DavisCommunicator._convert_air_pressure
convert_air_pressure(u, v) ==
    IF u.pressure_unit = "IN_HG" THEN Q(v, 0, 1, 1000)
    ELSE Q(v, 0, 3386389, 100000000)

\* DavisCommunicator._convert_rain: clicks times the click size, or None
\* when the unit or the collector is no member of its enumeration
convert_rain(u, v) ==
    IF u.rain_unit = "MM"
    THEN CASE u.rain_collector = "RAIN_001IN" -> Some(Q(v, 0, 2545, 10000))
           [] u.rain_collector = "RAIN_01MM" -> Some(Q(v, 0, 1, 10))
           [] u.rain_collector = "RAIN_02MM" -> Some(Q(v, 0, 2, 10))
           [] OTHER -> Null
    ELSE IF u.rain_unit = "IN"
    THEN CASE u.rain_collector = "RAIN_001IN" -> Some(Q(v, 0, 1, 100))
           [] u.rain_collector = "RAIN_01MM" -> Some(Q(v, 0, 10, 2545))
           [] u.rain_collector = "RAIN_02MM" -> Some(Q(v, 0, 20, 2545))
           [] OTHER -> Null
    ELSE Null

\* variant: index 15 is out of range too
convert_wind_dir_14(u, wv) ==
    IF 0 <= wv /\ wv <= 14
    THEN LET wind_dir_name == WIND_DIRECTIONS[wv + 1]
         IN  IF u.wind_dir_unit = "NAMES" THEN Some(wind_dir_name)
             ELSE Some(WIND_DIRECTIONS_DEG_MAP[wind_dir_name])
    ELSE Null

\* DavisCommunicator._convert_wind_dir
convert_wind_dir(u, wv) ==
    IF 0 <= wv /\ wv <= 15
    THEN LET wind_dir_name == WIND_DIRECTIONS[wv + 1]
         IN  IF u.wind_dir_unit = "NAMES" THEN Some(wind_dir_name)
             ELSE Some(WIND_DIRECTIONS_DEG_MAP[wind_dir_name])
    ELSE Null

\* DavisCommunicator._barometric_formula: a float for float arguments
barometric_formula(temp, barometric_pressure, hdiff) ==
    [fn |-> "barometric", temp |-> temp, pressure |-> barometric_pressure,
     hdiff |-> hdiff]

(* ------------------------------------------------------------------ *)
(* DavisCommunicator._create_archive_data_from_bytes                   *)
(* ------------------------------------------------------------------ *)
\* struct fields of a slot at byte offset off (from 0): H, h and B
U16(s, off) == UnpackLE16(SubSeq(s, off + 1, off + 2))
\* variant: the signed fields read as unsigned words
S16_unsigned(s, off) == U16(s, off)

S16(s, off) == IF U16(s, off) >= 32768 THEN U16(s, off) - 65536 ELSE U16(s, off)
U8(s, off) == s[off + 1]

\* struct.unpack('2H3h5Hh8BH20B', s), fields vl[0] .. vl[16]
unpack_archive(s) ==
    LET el == << U16(s, 0), U16(s, 2), S16(s, 4), S16(s, 6), S16(s, 8),
                 U16(s, 10), U16(s, 12), U16(s, 14), U16(s, 16), U16(s, 18),
                 S16(s, 20), U8(s, 22), U8(s, 23), U8(s, 24), U8(s, 25),
                 U8(s, 26), U8(s, 27) >>
    IN  [k \in 0..16 |-> el[k + 1]]

\* variant: None only when both inputs are None
barometer_sea_and(u, barometer, inside_temp) ==
    IF barometer.null /\ inside_temp.null THEN Null
    ELSE Some(barometric_formula(inside_temp.v, barometer.v, 0 - u.altitude))

\* record.barometer_sea: None if barometer is None or inside_temp is None
barometer_sea(u, barometer, inside_temp) ==
    IF barometer.null \/ inside_temp.null THEN Null
    ELSE Some(barometric_formula(inside_temp.v, barometer.v, 0 - u.altitude))

\* the MeteoRecord built from the unpacked fields
meteo_record(u, vl, dt, tm) ==
    LET barometer ==
            IF vl[7] = 0 THEN Null ELSE Some(convert_air_pressure(u, vl[7]))
        inside_temp ==
            IF vl[10] = 32767 THEN Null ELSE Some(convert_temp(u, vl[10]))
    IN  [record_date |-> dt,
         record_time |-> tm,
         out_temp |-> IF vl[2] = 32767 THEN Null
                      ELSE Some(convert_temp(u, vl[2])),
         hi_out_temp |-> IF vl[3] = -32768 THEN Null
                         ELSE Some(convert_temp(u, vl[3])),
         low_out_temp |-> IF vl[4] = 32767 THEN Null
                          ELSE Some(convert_temp(u, vl[4])),
         rainfall |-> convert_rain(u, vl[5]),
         high_rain_rate |-> convert_rain(u, vl[6]),
         barometer |-> barometer,
         solar_radiation |-> IF vl[8] = 32767 THEN Null ELSE Some(vl[8]),
         no_wind_samples |-> IF vl[9] = 0 THEN Null ELSE Some(vl[9]),
         inside_temp |-> inside_temp,
         inside_humidity |-> IF vl[11] = 255 THEN Null ELSE Some(vl[11]),
         outside_humidity |-> IF vl[12] = 255 THEN Null ELSE Some(vl[12]),
         avg_wind_speed |-> IF vl[13] = 255 THEN Null
                            ELSE Some(convert_wind_speed(u, vl[13])),
         high_wind_speed |-> IF vl[14] = 0 THEN Null
                             ELSE Some(convert_wind_speed(u, vl[14])),
         direction_hi_wind |-> IF vl[15] = 255 THEN Null
                               ELSE convert_wind_dir(u, vl[15]),
         direction_prev_wind |-> IF vl[16] = 255 THEN Null
                                 ELSE convert_wind_dir(u, vl[16]),
         barometer_sea |-> barometer_sea(u, barometer, inside_temp)]

\* _create_archive_data_from_bytes on a slot s: the record, struct.error
\* for a slot that is not 52 bytes, ValueError from date() or time(), or
\* AttributeError from dt.year when _decode_date returned None
create_archive_data_from_bytes(u, s) ==
    IF Len(s) # 52 THEN [kind |-> "struct.error", rec |-> <<>>]
    ELSE LET vl == unpack_archive(s)
             dt == decode_date(vl[0])
             tm == decode_time(vl[1])
         IN  IF dt.kind = "ValueError" THEN [kind |-> "ValueError", rec |-> <<>>]
             ELSE IF dt.kind = "None"
             THEN [kind |-> "AttributeError", rec |-> <<>>]
             ELSE IF tm.kind = "ValueError"
             THEN [kind |-> "ValueError", rec |-> <<>>]
             ELSE [kind |-> "ok", rec |-> meteo_record(u, vl, dt, tm)]

(* ------------------------------------------------------------------ *)
(* Archive pages the console may send                                  *)
(* ------------------------------------------------------------------ *)
\* rain clicks in the slots the console sends
RainClicks == 3

\* bytes 4..51 of a slot: the measurements, raw zero but for the rainfall
\* word at offset 10 and the high rain rate word at offset 12
MeasTail == [k \in 1..48 |-> IF k \in {7, 9} THEN RainClicks ELSE 0]

\* a 52-byte slot with the given packed date and packed time words
SlotBytes(date, time) == PackLE16(date) \o PackLE16(time) \o MeasTail

D_0612 == encode_date(<<2024, 6, 12>>)
SL_A == SlotBytes(D_0612, 1445)        \* 2024-06-12 14:45, equal to T_A
SL_B == SlotBytes(D_0612, 1500)        \* 2024-06-12 15:00, equal to T_B
SL_FF == SlotBytes(65535, 65535)       \* an empty slot
SL_ZERO == SlotBytes(0, 0)             \* packed date 0: month 0, day 0
SL_M13 == SlotBytes(1 + 13 * 32 + 24 * 512, 1500)   \* month 13
SL_T2460 == SlotBytes(D_0612, 2460)    \* hour 24, minute 60

\* the five slots of each page the console may send
PageSlots == <<
    << SL_A, SL_B, SL_FF, SL_FF, SL_FF >>,
    << SL_B, SL_B, SL_FF, SL_FF, SL_FF >>,
    << SL_B, SL_A, SL_FF, SL_FF, SL_FF >>,
    << SL_B, SL_ZERO, SL_A, SL_FF, SL_FF >>,
    << SL_M13, SL_B, SL_FF, SL_FF, SL_FF >>,
    << SL_B, SL_T2460, SL_FF, SL_FF, SL_FF >> >>

NSlotPages == Len(PageSlots)

\* the 265-byte body: a sequence byte, five slots and four unused bytes
PageBody(k) ==
    << k >> \o PageSlots[k][1] \o PageSlots[k][2] \o PageSlots[k][3]
            \o PageSlots[k][4] \o PageSlots[k][5] \o << 0, 0, 0, 0 >>

\* the 267-byte replies to a page read: every page with its CRC, the first
\* page with a wrong CRC, and a read that timed out with nothing
PageData ==
    [k \in 1..(NSlotPages + 2) |->
        IF k <= NSlotPages
        THEN PageBody(k) \o PackBE16(calculate_crc(PageBody(k)))
        ELSE IF k = NSlotPages + 1
        THEN PageBody(1) \o PackBE16((calculate_crc(PageBody(1)) + 1) % 65536)
        ELSE <<>>]

\* calc_crc of get_archive_data for each of these replies
PageCalcCrc ==
    [k \in DOMAIN PageData |->
        calculate_crc(SubSeq(PageData[k], 1, IF Len(PageData[k]) < 265
                                              THEN Len(PageData[k]) ELSE 265))]

\* DMPAFT headers: num_pages and valid_record, or a read that timed out
Headers == { PackLE16(n) \o PackLE16(v) : n \in 0..MaxPages, v \in {0, 1, 5} }
           \cup { <<>> }

(* ------------------------------------------------------------------ *)
(* DavisCommunicator.get_archive_data                                  *)
(* ------------------------------------------------------------------ *)
\* up to write_ack: the replies a1, a2 (ACK bytes), rcv (header), crcv (CRC)
dmpaft_start(since, a1, a2, rcv, crcv) ==
    LET head == << W(B_DMPAFT), W(<<LF>>), R(1, a1) >>
        buf == date_time_to_array(since)
        sent == head \o << W(buf.val), W(PackBE16(calculate_crc(buf.val))),
                           R(1, a2) >>
        hdr == sent \o << R(4, rcv), R(2, crcv) >>
        fail(w, e) == [wire |-> w, kind |-> e, num_pages |-> 0, valid_record |-> 0]
    IN  IF ~ack_passed(wait_for_ack(a1)) THEN fail(head, wait_for_ack(a1))
        ELSE IF buf.kind # "ok" THEN fail(head, buf.kind)
        ELSE IF ~ack_passed(wait_for_ack(a2)) THEN fail(sent, wait_for_ack(a2))
        ELSE IF Len(crcv) < 2 \/ Len(rcv) < 4 THEN fail(hdr, "struct.error")
        ELSE [wire |-> hdr \o << W(<<ACK>>) >>, kind |-> "ok",
              num_pages |-> UnpackLE16(SubSeq(rcv, 1, 2)),
              valid_record |-> UnpackLE16(SubSeq(rcv, 3, 4))]

DmpaftStart ==
    /\ pc = "get_archive_data"
    /\ \E a1 \in AckReplies, a2 \in AckReplies, rcv \in Headers :
       \E crcv \in CrcReplies(rcv) :
        LET out == dmpaft_start(last_stored_date, a1, a2, rcv, crcv)
        IN  /\ opWire' = out.wire
            /\ num_pages' = out.num_pages
            /\ valid_record' = out.valid_record
            /\ IF IsError(out.kind)
               THEN /\ pc' = "raised"
                    /\ error' = out.kind
               ELSE /\ pc' = "read_page"
                    /\ error' = error
    /\ op' = "get_archive_data"
    /\ frames' = Append(frames, [cmd |-> "DMPAFT", woken |-> wakeResult])
    /\ page_i' = 0
    /\ records' = <<>>
    /\ slotLog' = <<>>
    /\ UNCHANGED << toolVars, stored, new_time, session, port, attempt,
                    wakeResult, testResult, station_time, last_stored_date,
                    returned >>

\* the test  (i == 0) & (j < valid_record)
slot_skipped(i, j, vr) == (i = 0) /\ (j < vr)

\* variant: a record as old as last_stored_date passes too
is_newer_inclusive(ts, since) == DtLeq(since, ts)

\* the test  record_timestamp > last_stored_date
is_newer(ts, since) == DtLess(since, ts)

\* the loop over the five slots of page i, from slot j on; log records for
\* each slot whether the loop passed over it or handed it to _is_valid_record
RECURSIVE decode_slots(_, _, _, _, _, _, _, _)
decode_slots(u, page, i, j, vr, since, recs, log) ==
    IF j >= 5 THEN [kind |-> "ok", records |-> recs, log |-> log]
    ELSE LET s == SubSeq(page, 2 + 52 * j, 1 + 52 * (j + 1))
             seen == Append(log, [page |-> i, slot |-> j, what |-> "examined"])
             data_record == create_archive_data_from_bytes(u, s).rec
         IN  IF slot_skipped(i, j, vr)
             THEN decode_slots(u, page, i, j + 1, vr, since, recs,
                      Append(log, [page |-> i, slot |-> j, what |-> "pass"]))
             ELSE IF is_valid_record(s) = "ValueError"
             THEN [kind |-> "ValueError", records |-> recs, log |-> seen]
             ELSE IF is_valid_record(s) = "True"
                     /\ is_newer(record_datetime(s), since)
             THEN decode_slots(u, page, i, j + 1, vr, since,
                      Append(recs, [ts |-> record_datetime(s),
                                    page |-> i, slot |-> j,
                                    rainfall |-> data_record.rainfall,
                                    high_rain_rate |-> data_record.high_rain_rate]),
                      seen)
             ELSE decode_slots(u, page, i, j + 1, vr, since, recs, seen)

\* the test  calc_crc == crc  on a page
page_crc_ok(calc_crc, crc) == calc_crc = crc

\* variant: the acknowledge goes out before the page is read
page_wire_ack_first(rd) == << W(<<ACK>>) >> \o rd

\* the I/O of a page whose CRC matches: the read, then write_ack
page_wire(rd) == rd \o << W(<<ACK>>) >>

\* one iteration of the page loop, for the reply PageData[k]
read_page(u, k, i, vr, since, recs, log) ==
    LET page_data == PageData[k]
        rd == << R(267, page_data) >>
    IN  IF Len(page_data) < 267
        THEN [wire |-> rd, kind |-> "struct.error", records |-> recs, log |-> log]
        ELSE IF page_crc_ok(PageCalcCrc[k], UnpackBE16(SubSeq(page_data, 266, 267)))
        THEN LET dec == decode_slots(u, SubSeq(page_data, 1, 265), i, 0, vr,
                                     since, recs, log)
             IN  [wire |-> page_wire(rd), kind |-> dec.kind,
                  records |-> dec.records, log |-> dec.log]
        ELSE [wire |-> rd, kind |-> "ok", records |-> recs, log |-> log]

ReadPage ==
    /\ pc = "read_page"
    /\ page_i < num_pages
    /\ \E k \in DOMAIN PageData :
        LET out == read_page(communicator_units(caller), k, page_i, valid_record,
                             last_stored_date, records, slotLog)
        IN  /\ opWire' = opWire \o out.wire
            /\ records' = out.records
            /\ slotLog' = out.log
            /\ IF IsError(out.kind)
               THEN /\ pc' = "raised"
                    /\ error' = out.kind
                    /\ page_i' = page_i
               ELSE /\ pc' = "read_page"
                    /\ error' = error
                    /\ page_i' = page_i + 1
    /\ UNCHANGED << toolVars, stored, new_time, session, port, op, frames,
                    attempt, wakeResult, testResult, station_time,
                    last_stored_date, num_pages, valid_record, returned >>

\* list.sort(key=datetime): stable, ascending
RECURSIVE InsertByKey(_, _)
InsertByKey(sorted, r) ==
    IF sorted = <<>> THEN << r >>
    ELSE IF DtLeq(sorted[Len(sorted)].ts, r.ts) THEN Append(sorted, r)
    ELSE Append(InsertByKey(SubSeq(sorted, 1, Len(sorted) - 1), r),
                sorted[Len(sorted)])

\* variant: the records are returned in the order of arrival
sort_records_none(rs) == rs

RECURSIVE sort_records(_)
sort_records(rs) ==
    IF rs = <<>> THEN <<>>
    ELSE InsertByKey(sort_records(SubSeq(rs, 1, Len(rs) - 1)), rs[Len(rs)])

\* the page loop is over: sort and return
DmpaftReturn ==
    /\ pc = "read_page"
    /\ page_i >= num_pages
    /\ returned' = [kind |-> "list", val |-> sort_records(records)]
    /\ pc' = "close_port"
    /\ UNCHANGED << toolVars, stored, new_time, session, port, op, opWire,
                    frames, attempt, wakeResult, testResult, station_time,
                    error, last_stored_date, num_pages, valid_record, page_i,
                    records, slotLog >>

(* ------------------------------------------------------------------ *)
(* The tools: what run() does with the result of the session           *)
(* ------------------------------------------------------------------ *)
Abs(x) == IF x < 0 THEN -x ELSE x

\* round(n / d) of Python 3 for d > 0: to the nearest integer, ties to even
py_round(n, d) ==
    LET q == n \div d
        r == n % d
    IN  IF 2 * r < d THEN q
        ELSE IF 2 * r > d THEN q + 1
        ELSE IF q % 2 = 0 THEN q ELSE q + 1

\* variant: a drift equal to --timedelta sets the time too
needs_set_time_geq(c, td) == c.settime /\ Abs(td) >= c.timedelta

\* the test  self.settime and abs(time_diff) > self.timedelta
needs_set_time(c, td) == c.settime /\ Abs(td) > c.timedelta

\* CheckTime.run after _process_check_time: station_time.replace(...) raises
\* AttributeError on None; with --settime and a drift above --timedelta the
\* tool starts _process_set_time with the current time
CheckTimeRun ==
    /\ pc = "returned"
    /\ session = "check"
    /\ IF station_time.kind # "datetime"
       THEN /\ pc' = "raised"
            /\ error' = "AttributeError"
            /\ UNCHANGED << new_time, session, time_diff >>
       ELSE \E drift \in DriftSeconds, now \in NowTimes :
            /\ time_diff' = IF cfg.check \/ cfg.settime
                            THEN << drift, py_round(drift, 60) >>
                            ELSE time_diff
            /\ IF (cfg.check \/ cfg.settime)
                  /\ needs_set_time(cfg, py_round(drift, 60))
               THEN /\ new_time' = now
                    /\ session' = "set"
                    /\ pc' = "open_port"
                    /\ error' = error
               ELSE /\ pc' = "done"
                    /\ UNCHANGED << new_time, session, error >>
    /\ UNCHANGED << caller, cfg, retries_attempt, codec, collector_type,
                    console, runs, stored, port, op, opWire, frames, attempt,
                    wakeResult, testResult, station_time, dmpVars >>

\* _process_set_time after close_port: dt.isoformat() raises AttributeError
\* when get_time returned None
SetTimeLog ==
    /\ pc = "returned"
    /\ session = "set"
    /\ IF station_time.kind # "datetime"
       THEN /\ pc' = "raised"
            /\ error' = "AttributeError"
       ELSE /\ pc' = "done"
            /\ error' = error
    /\ UNCHANGED << toolVars, stored, new_time, session, port, op, opWire,
                    frames, attempt, wakeResult, testResult, station_time,
                    dmpVars >>

\* the timestamps of a list of records
RECURSIVE Timestamps(_)
Timestamps(rs) ==
    IF rs = <<>> THEN <<>>
    ELSE << rs[1].ts >> \o Timestamps(SubSeq(rs, 2, Len(rs)))

\* variant: the file is written from the new records alone
store_records_new_only(sd, rs) ==
    IF Len(rs) > 0
    THEN [exists |-> TRUE, rows |-> Timestamps(rs)]
    ELSE sd

\* StationLogger._store_records: the stored rows followed by the new ones
store_records(sd, rs) ==
    IF Len(rs) > 0
    THEN [exists |-> TRUE, rows |-> sd.rows \o Timestamps(rs)]
    ELSE sd

StoreRecords ==
    /\ pc = "returned"
    /\ session = "archive"
    /\ stored' = store_records(stored, returned.val)
    /\ pc' = "done"
    /\ UNCHANGED << toolVars, new_time, session, port, op, opWire, frames,
                    attempt, wakeResult, testResult, station_time, error,
                    dmpVars >>

\* a direct client of DavisCommunicator that only wakes the console
ClientReturn ==
    /\ pc = "returned"
    /\ session = "wake"
    /\ pc' = "done"
    /\ UNCHANGED << toolVars, stored, new_time, session, port, op, opWire,
                    frames, attempt, wakeResult, testResult, station_time,
                    error, dmpVars >>

Next ==
    \/ ReadConfiguration
    \/ OpenPort
    \/ WakeUpAttempt
    \/ WakeUpExhausted
    \/ TestComm
    \/ GetTime
    \/ SetTime
    \/ DmpaftStart
    \/ ReadPage
    \/ DmpaftReturn
    \/ ClosePort
    \/ CheckTimeRun
    \/ SetTimeLog
    \/ StoreRecords
    \/ ClientReturn

Spec == Init /\ [][Next]_vars

(* ------------------------------------------------------------------ *)
(* Properties                                                          *)
(* ------------------------------------------------------------------ *)
Tools == { "checktime", "settime", "stationlogger" }

\* the replies read so far by wake_up, in order
WakeReads == [k \in 1..(Len(opWire) \div 2) |-> opWire[2 * k].d]

\* wake_up has returned and opWire still holds its I/O
WakeUpOver == op = "wake_up" /\ wakeResult # "none"

\* no reply read by wake_up was LF CR
NoHandshakeReply == \A k \in DOMAIN WakeReads : WakeReads[k] # <<LF, CR>>

\* C1: wake_up makes at most retries_attempt attempts, each one write of the
\* single byte LF followed by one read of 2 bytes; it returns True at the
\* first attempt whose reply is LF CR and does no I/O after that attempt;
\* with retries_attempt = 0 it does no I/O.
C1_WakeUpAttempts ==
    op = "wake_up" =>
        /\ Len(opWire) % 2 = 0
        /\ Len(opWire) <= 2 * retries_attempt
        /\ \A k \in DOMAIN WakeReads :
            /\ opWire[2 * k - 1] = W(<<LF>>)
            /\ opWire[2 * k].k = "r" /\ opWire[2 * k].n = 2
            /\ (WakeReads[k] = <<LF, CR>>) => k = Len(WakeReads)
        /\ (wakeResult = "True") <=>
               (WakeReads # <<>> /\ WakeReads[Len(WakeReads)] = <<LF, CR>>)
        /\ (retries_attempt = 0) => opWire = <<>>

\* wake_up returned True at its second attempt
C1_Witness ==
    /\ op = "wake_up" /\ wakeResult = "True"
    /\ Len(opWire) = 4 /\ opWire[2].d = <<LF>>

\* C2 as stated: when no wake-up reply equals LF CR, wake_up fails with a
\* NotResponding error.
C2_Original ==
    (WakeUpOver /\ NoHandshakeReply) => error = "NotResponding"

\* C2 as amended: when no wake-up reply equals LF CR (short and empty reads
\* included), wake_up returns False after retries_attempt attempts and
\* raises no error.
C2_ReturnsFalse ==
    (WakeUpOver /\ NoHandshakeReply) =>
        /\ wakeResult = "False"
        /\ Len(WakeReads) = retries_attempt
        /\ error = "none" /\ pc # "raised"

\* three attempts without the handshake, a short and an empty read among them
C2_Witness ==
    /\ WakeUpOver /\ NoHandshakeReply /\ wakeResult = "False"
    /\ Len(WakeReads) = 3
    /\ \E k \in DOMAIN WakeReads : WakeReads[k] = <<LF>>
    /\ \E k \in DOMAIN WakeReads : WakeReads[k] = <<>>

\* C3: in every run of the three tools no command frame (TEST, GETTIME,
\* SETTIME, DMPAFT) is written after a wake_up that exhausted its retries.
C3_NoCommandAfterFailedWakeUp ==
    caller \in Tools => \A k \in DOMAIN frames : frames[k].woken # "False"

\* the event at position k of opWire is the byte read by wait_for_ack
IsAckRead(k) == opWire[k].k = "r" /\ opWire[k].n = 1

\* C4: in get_time, set_time and get_archive_data, when the byte read where
\* an ACK is awaited is not 0x06, the operation fails: no further frame is
\* written, no payload is read, no time and no records are returned.
C4_NonAckStopsOperation ==
    op \in {"get_time", "set_time", "get_archive_data"} =>
        \A k \in DOMAIN opWire :
            (IsAckRead(k) /\ Len(opWire[k].d) = 1 /\ opWire[k].d # <<ACK>>) =>
                /\ k = Len(opWire)
                /\ (op = "get_time") => station_time.kind # "datetime"
                /\ (op = "get_archive_data") => returned.kind # "list"

\* C5: get_archive_data fails when the CRC received after the 4-byte DMPAFT
\* header differs from the CRC computed over those 4 bytes: no ACK is sent to
\* start the page stream, no page is read, no records are returned.
C5_HeaderCrcChecked ==
    (/\ op = "get_archive_data"
     /\ Len(opWire) >= 8
     /\ Len(opWire[7].d) = 4 /\ Len(opWire[8].d) = 2
     /\ UnpackBE16(opWire[8].d) # calculate_crc(opWire[7].d)) =>
        /\ Len(opWire) = 8
        /\ returned.kind # "list"

\* get_time has read a full payload and a full CRC
GetTimeRead ==
    /\ op = "get_time"
    /\ Len(opWire) = 5
    /\ Len(opWire[4].d) = 6 /\ Len(opWire[5].d) = 2

GetTimeCrcMatches == UnpackBE16(opWire[5].d) = calculate_crc(opWire[4].d)

\* the date-time read off the payload: year 1900 + byte 5, month, day, hour,
\* minute, second
PayloadTime ==
    LET b == opWire[4].d
    IN  <<1900 + b[6], b[5], b[4], b[3], b[2], b[1]>>

\* C6 as stated: get_time returns "no time" when the received CRC differs
\* from the CRC over the 6 payload bytes, and otherwise returns the
\* date-time made of the payload bytes.
C6_Original ==
    GetTimeRead =>
        IF GetTimeCrcMatches
        THEN station_time = [kind |-> "datetime", val |-> PayloadTime]
        ELSE station_time.kind = "None"

\* C6 as amended: on a CRC mismatch get_time returns None; on a match it
\* returns the date-time made of the payload bytes when these are a date-time
\* (month 1..12, day within the month, hour 0..23, minute and second 0..59),
\* and raises ValueError, returning nothing, when they are not.
C6_GetTimeResult ==
    GetTimeRead =>
        IF ~GetTimeCrcMatches
        THEN station_time.kind = "None"
        ELSE IF DateOk(PayloadTime[1], PayloadTime[2], PayloadTime[3])
                /\ TimeOk(PayloadTime[4], PayloadTime[5], PayloadTime[6])
        THEN station_time = [kind |-> "datetime", val |-> PayloadTime]
        ELSE pc = "raised" /\ error = "ValueError" /\ station_time.kind = "unset"

\* get_time returned 2024-06-12 14:45:30
C6_Witness ==
    /\ GetTimeRead /\ GetTimeCrcMatches
    /\ station_time = [kind |-> "datetime", val |-> <<2024, 6, 12, 14, 45, 30>>]

(* ------------------------------------------------------------------ *)
(* Properties of the archive download                                  *)
(* ------------------------------------------------------------------ *)
\* positions in opWire of the page reads of get_archive_data
PageReads == { k \in DOMAIN opWire : opWire[k].k = "r" /\ opWire[k].n = 267 }

\* the reply of PageData that a page read returned
PageIndex(d) == CHOOSE k \in DOMAIN PageData : PageData[k] = d

\* the page read at position k came whole and its CRC matches its body
GoodPageAt(k) ==
    /\ Len(opWire[k].d) = 267
    /\ UnpackBE16(SubSeq(opWire[k].d, 266, 267)) = PageCalcCrc[PageIndex(opWire[k].d)]

\* the index i of the page read at position k
PageNo(k) == Cardinality({ j \in PageReads : j < k })

\* the position in opWire of the read of page i
PagePos(i) == CHOOSE k \in PageReads : PageNo(k) = i

\* get_archive_data is past its page loop, or was ended by an exception
\* other than the struct.error of a read that timed out
DownloadOver ==
    /\ op = "get_archive_data"
    /\ pc \in {"close_port", "returned", "done", "raised"}
    /\ error # "struct.error"
    /\ Len(opWire) >= 9

\* C7: for every page the client writes ACK if and only if the page's CRC
\* equals the CRC over its 265-byte body; a page with a bad CRC contributes
\* no record; NAK is never written; exactly num_pages pages of 267 bytes are
\* read however many of them had a bad CRC.
C7_PageAcks ==
    op = "get_archive_data" =>
        /\ \A k \in PageReads :
            GoodPageAt(k) <=> (k < Len(opWire) /\ opWire[k + 1] = W(<<ACK>>))
        /\ \A k \in 1..Len(records) : GoodPageAt(PagePos(records[k].page))
        /\ \A k \in DOMAIN opWire : opWire[k] # W(<<NAK>>)
        /\ Cardinality(PageReads) <= num_pages
        /\ DownloadOver => Cardinality(PageReads) = num_pages

\* the packed date and time words of slot j of a page body
SlotDate(page, j) == UnpackLE16(SubSeq(page, 2 + 52 * j, 3 + 52 * j))
SlotTime(page, j) == UnpackLE16(SubSeq(page, 4 + 52 * j, 5 + 52 * j))

\* a slot to skip: a word 0xFFFF, or fields outside year 0-99, month 1-12,
\* day 1-31, hour 0-23, minute 0-59
InvalidSlot(date, time) ==
    \/ date = 65535 \/ time = 65535
    \/ (date \div 512) > 99
    \/ ((date \div 32) % 16) \notin 1..12
    \/ (date % 32) \notin 1..31
    \/ (time \div 100) > 23
    \/ (time % 100) > 59

\* C8: a slot whose packed date or time is 0xFFFF, or whose fields are out
\* of range, is skipped: it yields no record, the download goes on with the
\* remaining slots and pages and returns the other records.
C8_InvalidSlotSkipped ==
    op = "get_archive_data" =>
        /\ error # "ValueError"
        /\ \A k \in PageReads : \A j \in 0..4 :
            (GoodPageAt(k) /\ InvalidSlot(SlotDate(opWire[k].d, j),
                                          SlotTime(opWire[k].d, j))) =>
                \A r \in 1..Len(records) :
                    ~(records[r].page = PageNo(k) /\ records[r].slot = j)

\* C9 as stated: the returned sequence is strictly increasing in timestamp.
C9_Original ==
    returned.kind = "list" =>
        \A k \in 1..(Len(returned.val) - 1) :
            DtLess(returned.val[k].ts, returned.val[k + 1].ts)

\* C9 as amended: the returned sequence is sorted by timestamp, ascending:
\* of two consecutive records the later has a greater or an equal timestamp,
\* equal when the pages carry two accepted slots with the same packed date
\* and time; the records are those accumulated, none lost or added.
C9_Sorted ==
    returned.kind = "list" =>
        /\ \A k \in 1..(Len(returned.val) - 1) :
            DtLeq(returned.val[k].ts, returned.val[k + 1].ts)
        /\ Len(returned.val) = Len(records)
        /\ \A k \in 1..Len(records) :
            \E r \in 1..Len(returned.val) : returned.val[r] = records[k]

\* the sort moved a record: the pages came with a later timestamp first
C9_Witness ==
    /\ returned.kind = "list"
    /\ Len(returned.val) >= 2
    /\ returned.val # records

\* C10: no returned record has a timestamp less than or equal to since, and
\* every valid, non-skipped slot of a good-CRC page whose timestamp is
\* greater than since is returned.
C10_SinceFilter ==
    /\ returned.kind = "list" =>
        \A r \in 1..Len(returned.val) :
            ~DtLeq(returned.val[r].ts, last_stored_date)
    /\ DownloadOver =>
        \A k \in PageReads : \A j \in 0..4 :
            (/\ GoodPageAt(k)
             /\ ~slot_skipped(PageNo(k), j, valid_record)
             /\ ~InvalidSlot(SlotDate(opWire[k].d, j), SlotTime(opWire[k].d, j))
             /\ is_newer(record_datetime(SubSeq(opWire[k].d, 2 + 52 * j, 53 + 52 * j)),
                         last_stored_date)) =>
                \E r \in 1..Len(returned.val) :
                    /\ returned.val[r].page = PageNo(k)
                    /\ returned.val[r].slot = j

\* slot j of page i was logged with the given outcome
Logged(i, j, what) ==
    \E n \in 1..Len(slotLog) :
        slotLog[n] = [page |-> i, slot |-> j, what |-> what]

\* C11: only the first valid_record slots of page 0 are skipped; slots with
\* index >= valid_record of page 0 and all five slots of every later page
\* are examined for decoding; with valid_record >= 5 the whole first page is
\* skipped and no later page is affected.
C11_SkipFirstPageOnly ==
    op = "get_archive_data" =>
        /\ \A n \in 1..Len(slotLog) :
            (slotLog[n].what = "pass") =>
                (slotLog[n].page = 0 /\ slotLog[n].slot < valid_record)
        /\ DownloadOver =>
            \A k \in PageReads : \A j \in 0..4 :
                GoodPageAt(k) =>
                    IF PageNo(k) = 0 /\ j < valid_record
                    THEN Logged(0, j, "pass") /\ ~Logged(0, j, "examined")
                    ELSE Logged(PageNo(k), j, "examined")

\* C12: in every run of a tool the port is closed after the last protocol
\* operation on every exit path, also when an operation raised: no run ends
\* with the port opened and not closed.
C12_PortClosedAtExit ==
    (caller \in Tools /\ pc \in {"done", "raised"}) => port # "open"

\* C13: Communicator.read(n) hands exactly n bytes to the protocol layer
\* whenever it returns: no read of an operation carries fewer than n bytes.
C13_ReadExact ==
    \A k \in DOMAIN opWire :
        opWire[k].k = "r" => Len(opWire[k].d) = opWire[k].n

\* C20: test_comm returns success when the 8 bytes read after TEST LF are
\* exactly LF CR 'TEST' LF CR, and failure for every other reply.
C20_TestCommResult ==
    (op = "test_comm" /\ Len(opWire) = 2) =>
        (testResult <=> opWire[2].d = B_TEST_REPLY)

(* ------------------------------------------------------------------ *)
(* Direct calls of the codec functions                                 *)
(* ------------------------------------------------------------------ *)
MaxCrcLen == 3

\* struct.pack('<h', v)
PackLE16s(v) == PackLE16(IF v < 0 THEN v + 65536 ELSE v)

\* the 52 bytes '2H3h5Hh8BH20B' the console sends for the raw fields r,
\* stamped 2024-06-12 15:00
RecordBytes(r) ==
    PackLE16(D_0612) \o PackLE16(1500)
    \o PackLE16s(r.out_temp) \o PackLE16s(r.hi_out_temp)
    \o PackLE16s(r.low_out_temp)
    \o PackLE16(r.rainfall) \o PackLE16(r.high_rain_rate)
    \o PackLE16(r.barometer) \o PackLE16(r.solar_radiation)
    \o PackLE16(r.no_wind_samples) \o PackLE16s(r.inside_temp)
    \o << r.inside_humidity, r.outside_humidity, r.avg_wind_speed,
          r.high_wind_speed, r.direction_hi_wind, r.direction_prev_wind >>
    \o [k \in 1..24 |-> 0]

\* raw fields none of which is a sentinel
RawBase ==
    [out_temp |-> 215, hi_out_temp |-> 230, low_out_temp |-> 200,
     rainfall |-> 3, high_rain_rate |-> 12, barometer |-> 29921,
     solar_radiation |-> 100, no_wind_samples |-> 5, inside_temp |-> 720,
     inside_humidity |-> 40, outside_humidity |-> 50, avg_wind_speed |-> 5,
     high_wind_speed |-> 9, direction_hi_wind |-> 4,
     direction_prev_wind |-> 12]

RawTemps == { 32767, -32768, 215 }

\* raw records: temperatures and barometer, then the other sentinels, then
\* rain clicks and wind directions
RawRecords ==
    { [RawBase EXCEPT !.out_temp = a, !.hi_out_temp = b, !.low_out_temp = c,
                      !.barometer = p, !.inside_temp = t] :
        a \in RawTemps, b \in RawTemps, c \in RawTemps, p \in {0, 29921},
        t \in {32767, -32768, 720} }
    \cup
    { [RawBase EXCEPT !.solar_radiation = a, !.no_wind_samples = b,
                      !.inside_humidity = c, !.outside_humidity = d,
                      !.avg_wind_speed = e, !.high_wind_speed = f] :
        a \in {32767, 0, 100}, b \in {0, 5}, c \in {255, 0, 40},
        d \in {255, 50}, e \in {255, 0, 5}, f \in {0, 255, 9} }
    \cup
    { [RawBase EXCEPT !.rainfall = a, !.high_rain_rate = b,
                      !.direction_hi_wind = c, !.direction_prev_wind = d] :
        a \in {0, 3, 65535}, b \in {0, 32767},
        c \in {255, 0, 15, 16, 254}, d \in {255, 0, 15, 16, 254} }

\* unit settings a DavisCommunicator is constructed with
UnitConfigs ==
    { [rain_collector |-> rc, rain_unit |-> ru, temp_unit |-> tu,
       wind_speed_unit |-> IF tu = "C" THEN "M_S" ELSE "K",
       pressure_unit |-> IF tu = "C" THEN "HPA" ELSE "IN_HG",
       wind_dir_unit |-> wd, altitude |-> 0] :
        rc \in RainCollector, ru \in RainMeasurementsUnit,
        tu \in TemperatureMeasurementsUnit, wd \in WindDirMeasurementsUnit }

CrcBytes == { 0, 1, 33, 128, 255 }

\* all blocks of one byte, and the blocks of up to MaxCrcLen sample bytes
CrcBlocks ==
    { <<b>> : b \in 0..255 }
    \cup UNION { [1..n -> CrcBytes] : n \in 0..MaxCrcLen }

\* the calendar dates of three years of the console's range
CodecDates ==
    { dt \in { <<y, m, d>> : y \in {2000, 2024, 2099}, m \in 1..12,
                              d \in 1..31 } : DateOk(dt[1], dt[2], dt[3]) }

CodecTimes == { <<h, m, sec>> : h \in 0..23, m \in 0..59, sec \in {0, 59} }

Call(fn, arg) ==
    [fn |-> fn, arg |-> arg, from |-> <<>>, out |-> <<>>, done |-> FALSE]


\* a call of _create_archive_data_from_bytes by a communicator with units u
\* on the slot of the raw fields r
RecordCall(u, r) ==
    [fn |-> "create_archive_data_from_bytes", arg |-> RecordBytes(r),
     from |-> r, units |-> u, out |-> <<>>, done |-> FALSE]

\* sector indexes: the sixteen sectors, the next two, and the last two bytes
WindDirIndexes == 0..17 \cup {254, 255}

\* a call of _convert_wind_dir(wv) by a communicator in wind mode wd
WindDirCall(wd, wv) ==
    [fn |-> "convert_wind_dir", arg |-> << wv >>, from |-> <<>>,
     units |-> [DefaultUnits EXCEPT !.wind_dir_unit = wd], out |-> <<>>,
     done |-> FALSE]

\* date-times over the years a SETTIME frame can carry: the first and last
\* day of the year, a leap day where there is one, three times of day
CodecDateTimes ==
    { dt \in { << y, md[1], md[2], t[1], t[2], t[3] >> :
                  y \in {1900, 1999, 2024, 2155},
                  md \in { <<1, 1>>, <<2, 29>>, <<6, 12>>, <<12, 31>> },
                  t \in { <<0, 0, 0>>, <<14, 45, 30>>, <<23, 59, 59>> } } :
        DateOk(dt[1], dt[2], dt[3]) }

protoVars == << stored, new_time, session, pc, port, op, opWire, frames,
                attempt, wakeResult, testResult, station_time, error, dmpVars >>

\* a communicator on which no session runs, and one codec call to make
CodecInit ==
    /\ caller = "client"
    /\ time_diff = <<>>
    /\ console = NoConsole
    /\ runs = 0
    /\ collector_type = "RAIN_02MM"
    /\ cfg = [check |-> FALSE, settime |-> FALSE, timedelta |-> 5]
    /\ retries_attempt = RETRIES
    /\ stored = [exists |-> FALSE, rows |-> <<>>]
    /\ new_time = <<>>
    /\ session = "codec"
    /\ pc = "codec"
    /\ port = "none"
    /\ op = "none"
    /\ opWire = <<>>
    /\ frames = <<>>
    /\ attempt = 0
    /\ wakeResult = "none"
    /\ testResult = FALSE
    /\ station_time = NoTime
    /\ error = "none"
    /\ last_stored_date = NULL_DATE_TIME
    /\ num_pages = 0
    /\ valid_record = 0
    /\ page_i = 0
    /\ records = <<>>
    /\ returned = NoRecords
    /\ slotLog = <<>>
    /\ \/ codec \in { Call("calculate_crc", b) : b \in CrcBlocks }
       \/ codec \in { Call("encode_date", dt) : dt \in CodecDates \cup {NULL_DATE} }
       \/ codec \in { Call("decode_date", <<i>>) : i \in {0, 65535} }
       \/ codec \in { Call("encode_time", tm) : tm \in CodecTimes }
       \/ codec \in { RecordCall(u, r) : u \in UnitConfigs, r \in RawRecords }
       \/ codec \in { WindDirCall(wd, wv) : wd \in WindDirMeasurementsUnit,
                                            wv \in WindDirIndexes }
       \/ codec \in { Call("set_time", dt) : dt \in CodecDateTimes }

\* DavisCommunicator._calculate_crc(block)
CalculateCrc ==
    /\ codec.fn = "calculate_crc" /\ ~codec.done
    /\ codec' = [codec EXCEPT !.out = calculate_crc(codec.arg), !.done = TRUE]
    /\ UNCHANGED << caller, cfg, retries_attempt, collector_type, console, runs,
                    time_diff, protoVars >>

\* DavisCommunicator._encode_date(dt); the word it returns is decoded next
EncodeDate ==
    /\ codec.fn = "encode_date" /\ ~codec.done
    /\ codec' = [Call("decode_date", << encode_date(codec.arg) >>)
                    EXCEPT !.from = codec.arg]
    /\ UNCHANGED << caller, cfg, retries_attempt, collector_type, console, runs,
                    time_diff, protoVars >>

\* DavisCommunicator._decode_date(i)
DecodeDate ==
    /\ codec.fn = "decode_date" /\ ~codec.done
    /\ codec' = [codec EXCEPT !.out = decode_date(codec.arg[1]), !.done = TRUE]
    /\ UNCHANGED << caller, cfg, retries_attempt, collector_type, console, runs,
                    time_diff, protoVars >>

\* DavisCommunicator._encode_time(tm); the word it returns is decoded next
EncodeTime ==
    /\ codec.fn = "encode_time" /\ ~codec.done
    /\ codec' = [Call("decode_time", << encode_time(codec.arg) >>)
                    EXCEPT !.from = codec.arg]
    /\ UNCHANGED << caller, cfg, retries_attempt, collector_type, console, runs,
                    time_diff, protoVars >>

\* DavisCommunicator._decode_time(i)
DecodeTime ==
    /\ codec.fn = "decode_time" /\ ~codec.done
    /\ codec' = [codec EXCEPT !.out = decode_time(codec.arg[1]), !.done = TRUE]
    /\ UNCHANGED << caller, cfg, retries_attempt, collector_type, console, runs,
                    time_diff, protoVars >>

\* DavisCommunicator._create_archive_data_from_bytes(s)
CreateArchiveData ==
    /\ codec.fn = "create_archive_data_from_bytes" /\ ~codec.done
    /\ codec' = [codec EXCEPT
                    !.out = create_archive_data_from_bytes(codec.units, codec.arg),
                    !.done = TRUE]
    /\ UNCHANGED << caller, cfg, retries_attempt, collector_type, console, runs,
                    time_diff, protoVars >>

\* DavisCommunicator._convert_wind_dir(wv)
ConvertWindDir ==
    /\ codec.fn = "convert_wind_dir" /\ ~codec.done
    /\ codec' = [codec EXCEPT !.out = convert_wind_dir(codec.units, codec.arg[1]),
                              !.done = TRUE]
    /\ UNCHANGED << caller, cfg, retries_attempt, collector_type, console, runs,
                    time_diff, protoVars >>

\* DavisCommunicator.set_time(dt) against a console that acknowledges; the
\* eight bytes it writes after the first ACK are handed to get_time next
SetTimeFrame ==
    /\ codec.fn = "set_time" /\ ~codec.done
    /\ LET out == set_time(codec.arg, <<ACK>>, <<ACK>>)
       IN  codec' = [Call("get_time", IF Len(out.wire) >= 5
                                      THEN out.wire[4].d \o out.wire[5].d
                                      ELSE <<>>)
                        EXCEPT !.from = codec.arg]
    /\ UNCHANGED << caller, cfg, retries_attempt, collector_type, console, runs,
                    time_diff, protoVars >>

\* DavisCommunicator.get_time() against a console that acknowledges and
\* replies the six bytes and the two CRC bytes of the frame
GetTimeFrame ==
    /\ codec.fn = "get_time" /\ ~codec.done
    /\ LET out == get_time(<<ACK>>, SubSeq(codec.arg, 1, 6),
                           SubSeq(codec.arg, 7, Len(codec.arg)))
       IN  codec' = [codec EXCEPT !.out = [kind |-> out.kind, val |-> out.val],
                                  !.done = TRUE]
    /\ UNCHANGED << caller, cfg, retries_attempt, collector_type, console, runs,
                    time_diff, protoVars >>

CodecNext ==
    \/ CalculateCrc
    \/ EncodeDate
    \/ DecodeDate
    \/ EncodeTime
    \/ DecodeTime
    \/ CreateArchiveData
    \/ ConvertWindDir
    \/ SetTimeFrame
    \/ GetTimeFrame

SpecCodec == CodecInit /\ [][CodecNext]_vars


(* ------------------------------------------------------------------ *)
(* Properties of the codec functions                                   *)
(* ------------------------------------------------------------------ *)
\* a call of fn has returned
Returned(fn) == codec.fn = fn /\ codec.done

\* _create_archive_data_from_bytes has returned a record
Decoded == Returned("create_archive_data_from_bytes") /\ codec.out.kind = "ok"

\* C14: in every decoded record each measurement is null exactly when its
\* raw field equals its sentinel: out_temp, low_out_temp, inside_temp at
\* 32767; hi_out_temp at -32768; barometer, no_wind_samples,
\* high_wind_speed at 0; solar_radiation at 32767; the two humidities and
\* avg_wind_speed at 255; the wind directions at 255 or above 15; rainfall
\* and high_rain_rate are never null.
C14_SentinelNull ==
    Returned("create_archive_data_from_bytes") =>
        LET r == codec.from
            rec == codec.out.rec
        IN  /\ codec.out.kind = "ok"
            /\ rec.out_temp.null <=> r.out_temp = 32767
            /\ rec.low_out_temp.null <=> r.low_out_temp = 32767
            /\ rec.inside_temp.null <=> r.inside_temp = 32767
            /\ rec.hi_out_temp.null <=> r.hi_out_temp = -32768
            /\ rec.barometer.null <=> r.barometer = 0
            /\ rec.no_wind_samples.null <=> r.no_wind_samples = 0
            /\ rec.high_wind_speed.null <=> r.high_wind_speed = 0
            /\ rec.solar_radiation.null <=> r.solar_radiation = 32767
            /\ rec.inside_humidity.null <=> r.inside_humidity = 255
            /\ rec.outside_humidity.null <=> r.outside_humidity = 255
            /\ rec.avg_wind_speed.null <=> r.avg_wind_speed = 255
            /\ rec.direction_hi_wind.null <=>
                   (r.direction_hi_wind = 255 \/ r.direction_hi_wind > 15)
            /\ rec.direction_prev_wind.null <=>
                   (r.direction_prev_wind = 255 \/ r.direction_prev_wind > 15)
            /\ ~rec.rainfall.null
            /\ ~rec.high_rain_rate.null

\* a record whose three outside temperatures are all raw -32768: only
\* hi_out_temp is null
C14_Witness ==
    /\ Decoded
    /\ codec.from.out_temp = -32768 /\ ~codec.out.rec.out_temp.null
    /\ codec.from.hi_out_temp = -32768 /\ codec.out.rec.hi_out_temp.null
    /\ codec.from.low_out_temp = -32768 /\ ~codec.out.rec.low_out_temp.null

\* C15: in every decoded record barometer_sea is null if and only if
\* barometer is null or inside_temp is null.
C15_BarometerSea ==
    Decoded =>
        (codec.out.rec.barometer_sea.null <=>
            (codec.out.rec.barometer.null \/ codec.out.rec.inside_temp.null))

\* a record with a barometer reading and no inside temperature
C15_Witness ==
    /\ Decoded
    /\ ~codec.out.rec.barometer.null
    /\ codec.out.rec.inside_temp.null
    /\ codec.out.rec.barometer_sea.null


\* C16: for every byte sequence B, _calculate_crc of B followed by the two
\* bytes of _calculate_crc(B) in big-endian order is 0.
C16_CrcResidueZero ==
    Returned("calculate_crc") =>
        calculate_crc(codec.arg \o PackBE16(codec.out)) = 0

\* a block of two or more bytes with a non-zero CRC
C16_Witness ==
    /\ Returned("calculate_crc")
    /\ Len(codec.arg) >= 2
    /\ codec.out # 0
    /\ calculate_crc(codec.arg \o PackBE16(codec.out)) = 0

\* one left shift of a 16-bit register with polynomial 0x1021
XmodemShift(r) ==
    IF r >= 32768 THEN BitXor((r * 2) % 65536, 4129) ELSE (r * 2) % 65536

\* eight shifts
XmodemShift8(r) ==
    XmodemShift(XmodemShift(XmodemShift(XmodemShift(
        XmodemShift(XmodemShift(XmodemShift(XmodemShift(r))))))))

\* the bitwise CRC-16/XMODEM of block[1..n], initial value 0, no final XOR
RECURSIVE XmodemCrc(_, _)
XmodemCrc(block, n) ==
    IF n = 0 THEN 0
    ELSE XmodemShift8(BitXor(XmodemCrc(block, n - 1), block[n] * 256))

\* C17: _CRC_TABLE[i] is (i << 8) shifted left eight times with polynomial
\* 0x1021 and 16-bit truncation, for every i in 0..255 (each i is the
\* one-byte block of a call); _calculate_crc agrees with the bitwise XMODEM
\* CRC on every input and stays within 0..65535.
C17_TableIsXmodem ==
    Returned("calculate_crc") =>
        /\ Len(codec.arg) = 1 =>
               CRC_TABLE[codec.arg[1] + 1] = XmodemShift8(codec.arg[1] * 256)
        /\ codec.out = XmodemCrc(codec.arg, Len(codec.arg))
        /\ codec.out \in 0..65535

\* the last table entry, reached by the one-byte block 0xFF
C17_Witness ==
    /\ Returned("calculate_crc")
    /\ codec.arg = << 255 >>
    /\ codec.out = 7920
    /\ XmodemShift8(255 * 256) = 7920

\* the call before the last DecodeDate was _encode_date of this date
EncodedFrom == codec.from

\* C18: for every calendar date with year in 2000..2099,
\* _decode_date(_encode_date(date)) is the same date and the encoded value
\* fits in 16 bits; the null date encodes to 0; _decode_date(0xFFFF) yields
\* no date (the call reports the invalid date by raising or returning None).
C18_DateRoundTrip ==
    Returned("decode_date") =>
        /\ (EncodedFrom # <<>> /\ EncodedFrom # NULL_DATE) =>
               /\ codec.arg[1] \in 0..65535
               /\ codec.out.kind = "ok"
               /\ codec.out.val = EncodedFrom
        /\ EncodedFrom = NULL_DATE => codec.arg[1] = 0
        /\ codec.arg[1] = 65535 => codec.out.kind # "ok"

\* the leap day 2024-02-29 went through both functions
C18_Witness ==
    /\ Returned("decode_date")
    /\ EncodedFrom = << 2024, 2, 29 >>
    /\ codec.out.val = << 2024, 2, 29 >>

\* C19: for every hour in 0..23 and minute in 0..59,
\* _decode_time(_encode_time(time)) is that hour and minute with second 0,
\* whatever the seconds of the input time were.
C19_TimeRoundTrip ==
    (Returned("decode_time") /\ codec.from # <<>>) =>
        /\ codec.out.kind = "ok"
        /\ codec.out.val = << codec.from[1], codec.from[2], 0 >>

\* 23:59:59 went through both functions and came back as 23:59:00
C19_Witness ==
    /\ Returned("decode_time")
    /\ codec.from = << 23, 59, 59 >>
    /\ codec.out.val = << 23, 59, 0 >>


(* ------------------------------------------------------------------ *)
(* The station logger under each collector type of the configuration   *)
(* ------------------------------------------------------------------ *)
\* a station logger without a data file yet, configured with any
\* CollectorType
CollectorInit ==
    /\ caller = "stationlogger"
    /\ collector_type \in CollectorTypes
    /\ cfg = [check |-> FALSE, settime |-> FALSE, timedelta |-> 5]
    /\ retries_attempt = RETRIES
    /\ stored = [exists |-> FALSE, rows |-> <<>>]
    /\ new_time = <<>>
    /\ session = "archive"
    /\ pc = "read_config"
    /\ port = "none"
    /\ op = "none"
    /\ opWire = <<>>
    /\ frames = <<>>
    /\ attempt = 0
    /\ wakeResult = "none"
    /\ testResult = FALSE
    /\ station_time = NoTime
    /\ error = "none"
    /\ last_stored_date = NULL_DATE_TIME
    /\ num_pages = 0
    /\ valid_record = 0
    /\ page_i = 0
    /\ records = <<>>
    /\ returned = NoRecords
    /\ slotLog = <<>>
    /\ codec = CodecIdle
    /\ console = NoConsole
    /\ runs = 0
    /\ time_diff = <<>>

\* the steps of StationLogger.run
CollectorNext ==
    \/ ReadConfiguration
    \/ OpenPort
    \/ WakeUpAttempt
    \/ WakeUpExhausted
    \/ TestComm
    \/ DmpaftStart
    \/ ReadPage
    \/ DmpaftReturn
    \/ ClosePort
    \/ StoreRecords

SpecCollector == CollectorInit /\ [][CollectorNext]_vars

(* ------------------------------------------------------------------ *)
(* Properties of the station logger and the check-time tool            *)
(* ------------------------------------------------------------------ *)
\* millimetres per click of each collector type, as a fraction
ClickSize(ct) ==
    CASE ct = "RAIN_001IN" -> << 2545, 10000 >>
      [] ct = "RAIN_01MM" -> << 1, 10 >>
      [] ct = "RAIN_02MM" -> << 2, 10 >>

\* clicks converted with the click size of collector type ct
RainOf(ct, clicks) == Some(Q(clicks, 0, ClickSize(ct)[1], ClickSize(ct)[2]))

\* C21: the collector type of the station-logger configuration determines
\* the click size that converts rainfall and high_rain_rate of every
\* downloaded record: 0.2545 mm for RAIN_001IN, 0.1 mm for RAIN_01MM,
\* 0.2 mm for RAIN_02MM.
C21_CollectorClickSize ==
    (caller = "stationlogger" /\ returned.kind = "list") =>
        \A n \in 1..Len(returned.val) :
            /\ returned.val[n].rainfall = RainOf(collector_type, RainClicks)
            /\ returned.val[n].high_rain_rate = RainOf(collector_type, RainClicks)


(* ------------------------------------------------------------------ *)
(* Whole runs of the station logger, one after another                 *)
(* ------------------------------------------------------------------ *)
MaxRuns == 2

\* the page loop of get_archive_data from page i on; ks[i + 1] is the
\* reply PageData[ks[i + 1]] to the read of page i
RECURSIVE read_pages(_, _, _, _, _, _, _)
\* after iteration i ended as out: the exception leaves the loop, anything
\* else goes on to page i + 1
pages_after(u, ks, i, n, vr, since, out) ==
    IF IsError(out.kind)
    THEN [kind |-> out.kind, records |-> out.records]
    ELSE read_pages(u, ks, i + 1, n, vr, since, out.records)

read_pages(u, ks, i, n, vr, since, recs) ==
    IF i >= n THEN [kind |-> "ok", records |-> recs]
    ELSE pages_after(u, ks, i, n, vr, since,
                     read_page(u, ks[i + 1], i, vr, since, recs, <<>>))

\* the end of get_archive_data once the page loop is over: the exception
\* that left the loop, or the sorted list
archive_result(start, pg) ==
    IF IsError(pg.kind)
    THEN [kind |-> pg.kind, val |-> <<>>, wire |-> start.wire]
    ELSE [kind |-> "list", val |-> sort_records(pg.records),
          wire |-> start.wire]

\* the call from the header on: start is what the exchange up to the
\* header gave
archive_pages(u, since, c, start) ==
    IF IsError(start.kind)
    THEN [kind |-> start.kind, val |-> <<>>, wire |-> start.wire]
    ELSE archive_result(start,
             read_pages(u, c.pages, 0, start.num_pages, start.valid_record,
                        since, <<>>))

\* DavisCommunicator.get_archive_data against the replies c: the sorted
\* list, or the exception that ended the call
get_archive_data(u, since, c) ==
    archive_pages(u, since, c,
                  dmpaft_start(since, c.a1, c.a2, c.rcv, c.crcv))

\* the pages of good and bad CRC the console sends in whole runs
RunPages == { 1, 2, 3, NSlotPages + 1 }

\* replies of the console to one whole run: the two acknowledge bytes,
\* the header with its CRC and one reply for each page the header announces
RunReplies ==
    UNION { { [a1 |-> a1, a2 |-> <<ACK>>,
               rcv |-> PackLE16(n) \o PackLE16(v),
               crcv |-> PackBE16(calculate_crc(PackLE16(n) \o PackLE16(v))),
               pages |-> ks] : ks \in [1..n -> RunPages] } :
            a1 \in { <<ACK>>, <<>> }, n \in 0..MaxPages, v \in {0, 1} }

\* a station logger with a valid configuration, its data file, and a console
RunsInit ==
    /\ caller = "stationlogger"
    /\ time_diff = <<>>
    /\ collector_type = "RAIN_02MM"
    /\ cfg = [check |-> FALSE, settime |-> FALSE, timedelta |-> 5]
    /\ retries_attempt = RETRIES
    /\ stored \in StoredFiles
    /\ new_time = <<>>
    /\ session = "archive"
    /\ pc = "run"
    /\ port = "none"
    /\ op = "none"
    /\ opWire = <<>>
    /\ frames = <<>>
    /\ attempt = 0
    /\ wakeResult = "none"
    /\ testResult = FALSE
    /\ station_time = NoTime
    /\ error = "none"
    /\ last_stored_date = NULL_DATE_TIME
    /\ num_pages = 0
    /\ valid_record = 0
    /\ page_i = 0
    /\ records = <<>>
    /\ returned = NoRecords
    /\ slotLog = <<>>
    /\ codec = CodecIdle
    /\ console \in RunReplies
    /\ runs = 0


\* StationLogger.run as a whole, against the replies in console: the last
\* stored timestamp, the archive download and the rewrite of the data file.
\* wake_up and test_comm come first; their results are dropped and they
\* raise nothing, so the download starts whatever the console replied.
StationLoggerRun ==
    /\ pc = "run"
    /\ runs < MaxRuns
    /\ \E out \in { get_archive_data(communicator_units(caller),
                                     find_last_stored_measurement(stored),
                                     console) } :
           /\ last_stored_date' = find_last_stored_measurement(stored)
           /\ opWire' = out.wire
           /\ IF out.kind = "list"
              THEN /\ returned' = [kind |-> "list", val |-> out.val]
                   /\ error' = "none"
                   /\ stored' = store_records(stored, out.val)
                   /\ port' = "closed"
              ELSE /\ returned' = NoRecords
                   /\ error' = out.kind
                   /\ stored' = stored
                   /\ port' = "open"
    /\ op' = "get_archive_data"
    /\ runs' = runs + 1
    /\ UNCHANGED << caller, cfg, retries_attempt, codec, collector_type,
                    console, time_diff, new_time, session, pc, frames, attempt,
                    wakeResult, testResult, station_time, num_pages,
                    valid_record, page_i, records, slotLog >>

\* between two runs the console archives new data or the line behaves
\* differently: the next run gets other replies
ConsoleChanges ==
    /\ pc = "run"
    /\ runs > 0
    /\ console' \in RunReplies \ {console}
    /\ runs' = 0
    /\ UNCHANGED << caller, cfg, retries_attempt, codec, collector_type,
                    time_diff, protoVars >>

RunsNext ==
    \/ StationLoggerRun
    \/ ConsoleChanges

SpecRuns == RunsInit /\ [][RunsNext]_vars

\* the rows of the data file, oldest first: each older than the next
StrictlyIncreasing(rows) ==
    \A n \in 1..(Len(rows) - 1) : DtLess(rows[n], rows[n + 1])

\* no row is older than the row before it
NonDecreasing(rows) ==
    \A n \in 1..(Len(rows) - 1) : DtLeq(rows[n], rows[n + 1])

\* the last whole run rewrote the data file
RunAppended == runs > 0 /\ returned.kind = "list" /\ Len(returned.val) > 0

\* what both readings of C22 say about the request and the rows appended:
\* since is the last stored timestamp, sent as the words 0, 0 when it is
\* the null date-time; only records newer than since are appended; a
\* second run against the same replies appends nothing
RunsAppendNewer ==
    /\ (runs > 0 /\ last_stored_date = NULL_DATE_TIME /\ Len(opWire) >= 4) =>
           opWire[4].d = << 0, 0, 0, 0 >>
    /\ RunAppended =>
           /\ \A n \in 1..Len(returned.val) :
                  DtLess(last_stored_date, returned.val[n].ts)
           /\ Len(stored.rows) >= Len(returned.val)
           /\ SubSeq(stored.rows, Len(stored.rows) - Len(returned.val) + 1,
                     Len(stored.rows)) = Timestamps(returned.val)
    /\ runs >= 2 => ~RunAppended

\* C22 as stated: after any sequence of runs the timestamps in the CSV are
\* strictly increasing with no duplicates.
C22_Original ==
    pc = "run" => (StrictlyIncreasing(stored.rows) /\ RunsAppendNewer)

\* C22: after any sequence of station-logger runs the timestamps in the CSV
\* never decrease, and every run appends only records newer than the last
\* stored timestamp it requested from (the null date-time, sent as packed
\* date 0 and time 0, when no file exists), so a second run against
\* unchanged replies appends nothing; two equal timestamps appear only when
\* one download carries two accepted slots with the same date and time.
C22_CsvNonDecreasing ==
    pc = "run" => (NonDecreasing(stored.rows) /\ RunsAppendNewer)

\* a second run against the same replies, after a first run that stored rows
C22_Witness ==
    /\ pc = "run"
    /\ runs = 2
    /\ stored.exists
    /\ Len(stored.rows) >= 2
    /\ returned.kind = "list"
    /\ returned.val = <<>>


\* a SETTIME command has been written in this run
SetTimeSent == \E n \in 1..Len(frames) : frames[n].cmd = "SETTIME"

\* --settime is on and the drift, in whole minutes, exceeds --timedelta
DriftExceeds ==
    /\ cfg.settime
    /\ time_diff # <<>>
    /\ Abs(time_diff[2]) > cfg.timedelta

\* the positions of _process_set_time before set_time is called
BeforeSetTime == pc \in {"open_port", "wake_up", "test_comm", "set_time"}

\* C23: the check-time tool writes SETTIME if and only if --settime is on
\* and the absolute drift between station time and current time, rounded
\* to whole minutes, exceeds --timedelta; in every other run (plain print,
\* --check only, drift within the threshold) no SETTIME is ever sent.
C23_SetTimeIffDrift ==
    caller = "checktime" =>
        /\ time_diff # <<>> =>
               /\ 60 * time_diff[2] - time_diff[1] <= 30
               /\ time_diff[1] - 60 * time_diff[2] <= 30
        /\ SetTimeSent => DriftExceeds
        /\ session = "set" <=> DriftExceeds
        /\ (session = "set" /\ ~BeforeSetTime) => SetTimeSent

\* a drift of exactly 5.5 minutes counts as 6 and the time has been set
C23_Witness ==
    /\ caller = "checktime"
    /\ time_diff = << 330, 6 >>
    /\ SetTimeSent
    /\ pc = "done"


\* the sixteen compass names, clockwise from north
CompassNames ==
    << "N", "NNE", "NE", "ENE", "E", "ESE", "SE", "SSE", "S", "SSW", "SW",
       "WSW", "W", "WNW", "NW", "NNW" >>

\* C24: a wind-direction index i in 0..15 maps to the i-th compass name in
\* NAMES mode and to the bearing 22.5 * i degrees (225 * i tenths) in DEG
\* mode; every index above 15 maps to null.
C24_WindSectors ==
    Returned("convert_wind_dir") =>
        LET i == codec.arg[1]
        IN  IF i <= 15
            THEN /\ ~codec.out.null
                 /\ IF codec.units.wind_dir_unit = "NAMES"
                    THEN codec.out.v = CompassNames[i + 1]
                    ELSE codec.out.v = 225 * i
            ELSE codec.out.null

\* sector 15 in DEG mode is 337.5 degrees
C24_Witness ==
    /\ Returned("convert_wind_dir")
    /\ codec.arg = << 15 >>
    /\ codec.units.wind_dir_unit = "DEG"
    /\ ~codec.out.null
    /\ codec.out.v = 3375


\* the frame written after the first acknowledge read: packed date and
\* packed time of since, both little-endian
SinceWords ==
    PackLE16(encode_date(SubSeq(last_stored_date, 1, 3)))
    \o PackLE16(encode_time(SubSeq(last_stored_date, 4, 6)))

\* the event at position k of a download is the k-th event of the protocol
DmpaftEventOk(k) ==
    LET e == opWire[k]
    IN  CASE k = 1 -> e = W(B_DMPAFT)
          [] k = 2 -> e = W(<<LF>>)
          [] k = 3 -> e.k = "r" /\ e.n = 1
          [] k = 4 -> e = W(SinceWords)
          [] k = 5 -> e = W(PackBE16(calculate_crc(opWire[4].d)))
          [] k = 6 -> e.k = "r" /\ e.n = 1
          [] k = 7 -> e.k = "r" /\ e.n = 4
          [] k = 8 -> e.k = "r" /\ e.n = 2
          [] k = 9 -> e = W(<<ACK>>)
          [] k = 10 -> e.k = "r" /\ e.n = 267
          [] OTHER -> \/ e.k = "r" /\ e.n = 267
                      \/ e = W(<<ACK>>) /\ opWire[k - 1].k = "r"
                                         /\ opWire[k - 1].n = 267

C26_SetGetTimeInverse ==
    (Returned("get_time") /\ codec.from[1] \in 1900..2155) =>
        /\ Len(codec.arg) = 8
        /\ SubSeq(codec.arg, 1, 6) =
               << codec.from[6], codec.from[5], codec.from[4], codec.from[3],
                  codec.from[2], codec.from[1] - 1900 >>
        /\ codec.out.kind = "datetime"
        /\ codec.out.val = codec.from

\* the last second of 2155, year byte 255, went out and came back
C26_Witness ==
    /\ Returned("get_time")
    /\ codec.from = << 2155, 12, 31, 23, 59, 59 >>
    /\ codec.arg[6] = 255
    /\ codec.out.val = << 2155, 12, 31, 23, 59, 59 >>


\* the step is taken by the station logger with the list get_archive_data
\* returned in hand, and the list is not empty
AfterNonEmptyDownload ==
    /\ caller = "stationlogger"
    /\ pc = "returned"
    /\ returned.kind = "list"
    /\ Len(returned.val) > 0

\* C27: a station-logger run changes the CSV data file only in the step
\* taken after get_archive_data returned a non-empty record list, and the
\* file then holds the rows stored before, in their order, followed by the
\* new rows; a run that raised (configuration, transport or decode error) or
\* downloaded nothing never changes the file.
C27_FileWrittenOnlyAfterRecords ==
    [][ stored' # stored =>
            /\ AfterNonEmptyDownload
            /\ error = "none"
            /\ stored'.exists
            /\ stored'.rows = stored.rows \o Timestamps(returned.val) ]_vars

\* a finished run added the downloaded rows after the row the file had
C27_Witness ==
    /\ caller = "stationlogger"
    /\ pc = "done"
    /\ last_stored_date = T_A
    /\ Len(returned.val) > 0
    /\ Len(stored.rows) = 1 + Len(returned.val)
    /\ stored.rows[1] = T_A
    /\ SubSeq(stored.rows, 2, Len(stored.rows)) = Timestamps(returned.val)

====
